---- MODULE Spec2Model ----
(***************************************************************************)
(* Model of the SEEDtk kernel scripts:                                     *)
(*   - scripts/build_LDA_predictors.py : the parallel training driver and  *)
(*     the per-column trainer make_predictor (specification Spec);         *)
(*   - scripts/eval_gtos.py : the evaluation driver and run_predictor      *)
(*     (specification SpecEval);                                           *)
(*   - the matrix loading of eval_gtos.py and apply_classifier.py          *)
(*     (specification SpecLoad);                                           *)
(*   - the fold count of build_LDA_predictors.py (specification SpecFold). *)
(* The file system is a set of directories and a map of files, both keyed  *)
(* by path; a path is the sequence of its components below probDir.        *)
(***************************************************************************)
EXTENDS Integers, Sequences, FiniteSets, TLC

VARIABLES
    \* ---- build_LDA_predictors.py
    col_names,       \* col.h: column index (0-based) -> role identifier
    nXcols,          \* X_all.shape[1]
    clear,           \* args.clear
    classifier,      \* args.classifier
    dirs,            \* directories that exist below probDir
    files,           \* files that exist below probDir: path -> content
    dpc,             \* position of the driver
    pred_to_run,     \* the columns to dispatch, in order
    pred_completed,  \* the count of columns found already trained
    task,            \* column -> position of its make_predictor task
    clf,             \* column -> what the task's classifier was last fitted on
    err,             \* column -> the exception that ended the task
    touched,         \* column -> paths the task created or wrote in this run
    prior,           \* the files that existed when the run began
    runs,            \* the number of runs of the driver so far
    \* ---- eval_gtos.py
    eNcols,          \* X_all.shape[1]
    eNrows,          \* X_all.shape[0]
    modelFiles,      \* the columns whose persisted model file exists
    epc,             \* position of the evaluation driver
    etask,           \* column -> position of its run_predictor task
    results,         \* column -> the list run_predictor returned
    completion,      \* the columns in the order their tasks completed
    modelPred,       \* column -> what its persisted model predicts for each row
    predictions,     \* the variable predictions of __main__
    written,         \* the output files written in this run
    \* ---- matrix loading
    script,          \* which script loads the matrix
    fileRows,        \* rows of the file X
    fileCols,        \* columns of the file X
    lpc,             \* position of the loader
    shape,           \* X.shape
    \* ---- fold count
    fraction,        \* args.fraction as <<numerator, denominator>>
    fpc,             \* position of the fold computation
    n_fold           \* the fold count

trainVars == <<col_names, nXcols, clear, classifier, dirs, files, dpc,
               pred_to_run, pred_completed, task, clf, err, touched, prior, runs>>
evalVars  == <<eNcols, eNrows, modelFiles, epc, etask, results, completion,
               modelPred, predictions, written>>
loadVars  == <<script, fileRows, fileCols, lpc, shape>>
foldVars  == <<fraction, fpc, n_fold>>
vars      == <<trainVars, evalVars, loadVars, foldVars>>

\* ------------------------------------------------------------------ bounds
MaxCols == 3
MaxRuns == 2
NJobs   == 2

\* ------------------------------------------------------------- file system
Parent(p) == SubSeq(p, 1, Len(p) - 1)
Last(p)   == p[Len(p)]
IsPrefix(p, q) == Len(p) <= Len(q) /\ SubSeq(q, 1, Len(p)) = p

\* os.mkdir(p): the exception it raises, or "none"
MkdirError(p) ==
    IF p \in dirs \/ p \in DOMAIN files THEN "FileExistsError"
    ELSE IF Parent(p) \notin dirs THEN "FileNotFoundError"
    ELSE "none"

\* open(p, 'w'): the exception it raises, or "none"
WriteError(p) ==
    IF p \in dirs THEN "IsADirectoryError"
    ELSE IF Parent(p) \notin dirs THEN "FileNotFoundError"
    ELSE "none"

WriteFile(fs, p, c) == [q \in DOMAIN fs \cup {p} |-> IF q = p THEN c ELSE fs[q]]

\* shutil.rmtree(p)
RmtreeDirs(ds, p) == {d \in ds : ~IsPrefix(p, d)}
RmtreeFiles(fs, p) == [q \in {f \in DOMAIN fs : ~IsPrefix(p, f)} |-> fs[q]]

\* ------------------------------------------------- build_LDA_predictors.py
Roles == {<<"a">>, <<"b">>}
ClfTypes == {"RandomForest", "LDA"}

ClfName(c) == IF c = "RandomForest" THEN "RandomForestClassifier" ELSE "LDAClassifier"

Predictors == <<"Predictors">>

\* col_names.shape[0]
NColNames == Cardinality(DOMAIN col_names)
Cols == DOMAIN col_names

PredDir_shared(i) == Predictors \o <<"role">>
PredDir(i) == Predictors \o col_names[i]
ClfDir(i)  == PredDir(i) \o <<"Classifiers">>
PklDir(i)  == ClfDir(i) \o <<ClfName(classifier)>>
ClfFilename(i) == PklDir(i) \o <<ClfName(classifier)>>
AccFile(i) == PklDir(i) \o <<"accuracy">>

\* line 90-91: the completion test of the driver
IsCompleted_model(i) == ClfFilename(i) \in DOMAIN files
IsCompleted(i) ==
    (Predictors \o col_names[i] \o <<"Classifiers", ClfName(classifier), "accuracy">>)
        \in DOMAIN files

\* range(n) as a sequence
Range(n) == [k \in 1..n |-> k - 1]

RECURSIVE ScanFrom(_)
\* lines 89-94: the columns from i on that have no accuracy record, in order
ScanFrom(i) ==
    IF i >= NColNames THEN <<>>
    ELSE IF IsCompleted(i) THEN ScanFrom(i + 1)
    ELSE <<i>> \o ScanFrom(i + 1)

RECURSIVE CountFrom(_)
\* lines 89-92: the count of columns from i on that have an accuracy record
CountFrom(i) ==
    IF i >= NColNames THEN 0
    ELSE (IF IsCompleted(i) THEN 1 ELSE 0) + CountFrom(i + 1)

ToSet(s) == {s[k] : k \in DOMAIN s}

\* lines 84-85: what --clear leaves of the directories and the files
ClearedDirs == RmtreeDirs(dirs, Predictors) \cup {Predictors}
ClearedFiles_kept == files
ClearedFiles == RmtreeFiles(files, Predictors)

\* the steps of make_predictor after its directories exist, in order
TrainSteps_swapped == <<"fit", "save", "dump">>
TrainSteps == <<"fit", "dump", "save">>

StepAfter(pc) ==
    LET k == CHOOSE n \in DOMAIN TrainSteps : TrainSteps[n] = pc
    IN  IF k = Len(TrainSteps) THEN "done" ELSE TrainSteps[k + 1]

Idle == [i \in 0..(MaxCols - 1) |-> "idle"]

TrainIdleTasks ==
    /\ task = Idle
    /\ clf = [i \in 0..(MaxCols - 1) |-> "unfit"]
    /\ err = [i \in 0..(MaxCols - 1) |-> "none"]
    /\ touched = [i \in 0..(MaxCols - 1) |-> {}]

\* lines 53-75: the arguments are parsed, X and col.h are loaded
TrainInit ==
    /\ \E n \in 2..MaxCols : col_names \in [0..(n - 1) -> Roles]
    /\ nXcols \in 2..MaxCols
    /\ clear \in BOOLEAN
    /\ classifier \in ClfTypes
    /\ dirs = {<<>>}
    /\ files = <<>>
    /\ dpc = "loaded"
    /\ pred_to_run = <<>>
    /\ pred_completed = 0
    /\ TrainIdleTasks
    /\ prior = <<>>
    /\ runs = 1

EvalIdle ==
    /\ eNcols = 0 /\ eNrows = 0 /\ modelFiles = {} /\ epc = "off"
    /\ etask = <<>> /\ results = <<>> /\ completion = <<>>
    /\ modelPred = <<>> /\ predictions = <<>> /\ written = {}

LoadIdle ==
    /\ script = "none" /\ fileRows = 0 /\ fileCols = 0 /\ lpc = "off" /\ shape = <<>>

FoldIdle ==
    /\ fraction = <<1, 1>> /\ fpc = "off" /\ n_fold = 0

Init == TrainInit /\ EvalIdle /\ LoadIdle /\ FoldIdle

notTrain == <<evalVars, loadVars, foldVars>>

\* lines 77-98: the pending columns are computed
Scan ==
    /\ dpc = "loaded"
    /\ IF Predictors \in dirs
       THEN IF clear
            THEN /\ dirs' = ClearedDirs
                 /\ files' = ClearedFiles
                 /\ pred_to_run' = Range(NColNames)
                 /\ pred_completed' = 0
            ELSE /\ pred_to_run' = ScanFrom(0)
                 /\ pred_completed' = CountFrom(0)
                 /\ UNCHANGED <<dirs, files>>
       ELSE /\ dirs' = dirs \cup {Predictors}
            /\ pred_to_run' = Range(NColNames)
            /\ pred_completed' = 0
            /\ UNCHANGED files
    /\ dpc' = "scanned"
    /\ UNCHANGED <<col_names, nXcols, clear, classifier, task, clf, err, touched,
                   prior, runs>>
    /\ UNCHANGED notTrain

\* lines 138-141: train.err is opened and the tasks are handed to joblib.Parallel
Dispatch ==
    /\ dpc = "scanned"
    /\ files' = WriteFile(files, <<"train.err">>, "log")
    /\ task' = [i \in DOMAIN task |->
                   IF i \in ToSet(pred_to_run) THEN "queued" ELSE task[i]]
    /\ dpc' = "running"
    /\ UNCHANGED <<col_names, nXcols, clear, classifier, dirs, pred_to_run,
                   pred_completed, clf, err, touched, prior, runs>>
    /\ UNCHANGED notTrain

Active == {i \in DOMAIN task :
             task[i] \notin {"idle", "queued", "done", "failed", "cancelled"}}

\* joblib hands out the tasks in the order of pred_to_run, NJobs at a time
NextQueued(i) ==
    \E k \in DOMAIN pred_to_run :
        /\ pred_to_run[k] = i
        /\ task[i] = "queued"
        /\ \A m \in 1..(k - 1) : task[pred_to_run[m]] # "queued"

TaskStart(i) ==
    /\ dpc = "running"
    /\ NextQueued(i)
    /\ Cardinality(Active) < NJobs
    /\ task' = [task EXCEPT ![i] = "isdir_pred"]
    /\ UNCHANGED <<col_names, nXcols, clear, classifier, dirs, files, dpc,
                   pred_to_run, pred_completed, clf, err, touched, prior, runs>>
    /\ UNCHANGED notTrain

StageDir(i, pc) ==
    IF pc \in {"isdir_pred", "mkdir_pred"} THEN PredDir(i)
    ELSE IF pc \in {"isdir_clf", "mkdir_clf"} THEN ClfDir(i)
    ELSE PklDir(i)

AfterDir(pc) ==
    IF pc \in {"isdir_pred", "mkdir_pred"} THEN "isdir_clf"
    ELSE IF pc \in {"isdir_clf", "mkdir_clf"} THEN "isdir_pkl"
    ELSE TrainSteps[1]

MkdirOf(pc) ==
    IF pc = "isdir_pred" THEN "mkdir_pred"
    ELSE IF pc = "isdir_clf" THEN "mkdir_clf"
    ELSE "mkdir_pkl"

Fail(i, e) ==
    /\ task' = [task EXCEPT ![i] = "failed"]
    /\ err' = [err EXCEPT ![i] = e]

\* lines 14, 17, 20: if not os.path.isdir(d)
TaskIsdir(i) ==
    /\ dpc = "running"
    /\ task[i] \in {"isdir_pred", "isdir_clf", "isdir_pkl"}
    /\ task' = [task EXCEPT ![i] =
                   IF StageDir(i, task[i]) \in dirs
                   THEN AfterDir(task[i]) ELSE MkdirOf(task[i])]
    /\ UNCHANGED <<col_names, nXcols, clear, classifier, dirs, files, dpc,
                   pred_to_run, pred_completed, clf, err, touched, prior, runs>>
    /\ UNCHANGED notTrain

\* lines 15, 18, 21: os.mkdir(d)
TaskMkdir(i) ==
    /\ dpc = "running"
    /\ task[i] \in {"mkdir_pred", "mkdir_clf", "mkdir_pkl"}
    /\ LET d == StageDir(i, task[i])
       IN  IF MkdirError(d) = "none"
           THEN /\ dirs' = dirs \cup {d}
                /\ touched' = [touched EXCEPT ![i] = @ \cup {d}]
                /\ task' = [task EXCEPT ![i] = AfterDir(task[i])]
                /\ UNCHANGED err
           ELSE /\ Fail(i, MkdirError(d))
                /\ UNCHANGED <<dirs, touched>>
    /\ UNCHANGED <<col_names, nXcols, clear, classifier, files, dpc,
                   pred_to_run, pred_completed, clf, prior, runs>>
    /\ UNCHANGED notTrain

\* lines 23-44: the column is sliced and cross-validated, then the classifier
\* is fitted again on all rows; a fit may raise
TaskFit(i) ==
    /\ dpc = "running"
    /\ task[i] = "fit"
    /\ IF i >= nXcols
       THEN /\ Fail(i, "IndexError")
            /\ UNCHANGED clf
       ELSE \/ /\ Fail(i, "FitError")
               /\ clf' = [clf EXCEPT ![i] = "fold"]
            \/ /\ task' = [task EXCEPT ![i] = StepAfter("fit")]
               /\ clf' = [clf EXCEPT ![i] = "all"]
               /\ UNCHANGED err
    /\ UNCHANGED <<col_names, nXcols, clear, classifier, dirs, files, dpc,
                   pred_to_run, pred_completed, touched, prior, runs>>
    /\ UNCHANGED notTrain

\* a write of content c to path p by task i, at step pc
TaskWrite(i, pc, p, c) ==
    /\ dpc = "running"
    /\ task[i] = pc
    /\ IF WriteError(p) = "none"
       THEN /\ files' = WriteFile(files, p, c)
            /\ touched' = [touched EXCEPT ![i] = @ \cup {p}]
            /\ task' = [task EXCEPT ![i] = StepAfter(pc)]
            /\ UNCHANGED err
       ELSE /\ Fail(i, WriteError(p))
            /\ UNCHANGED <<files, touched>>
    /\ UNCHANGED <<col_names, nXcols, clear, classifier, dirs, dpc,
                   pred_to_run, pred_completed, clf, prior, runs>>
    /\ UNCHANGED notTrain

\* lines 45-46: joblib.dump(clf, clfFilename)
TaskDump(i) == TaskWrite(i, "dump", ClfFilename(i), clf[i])

\* lines 47-48: np.savetxt(acc_file, summary)
TaskSave(i) == TaskWrite(i, "save", AccFile(i), "summary")

Stopped == [i \in DOMAIN task |->
              IF task[i] \in {"idle", "done", "failed"} THEN task[i] ELSE "cancelled"]

\* lines 141-143: every task returned; joblib.Parallel returns
Finish ==
    /\ dpc = "running"
    /\ \A i \in ToSet(pred_to_run) : task[i] = "done"
    /\ dpc' = "finished"
    /\ UNCHANGED <<col_names, nXcols, clear, classifier, dirs, files,
                   pred_to_run, pred_completed, task, clf, err, touched, prior, runs>>
    /\ UNCHANGED notTrain

\* line 141: joblib.Parallel re-raises the exception of a task; the batch ends
\* and the tasks that have not returned are terminated
Abort ==
    /\ dpc = "running"
    /\ \E i \in DOMAIN task : task[i] = "failed"
    /\ dpc' = "aborted"
    /\ task' = Stopped
    /\ clf' = [i \in 0..(MaxCols - 1) |-> "unfit"]
    /\ touched' = [i \in 0..(MaxCols - 1) |-> {}]
    /\ UNCHANGED <<col_names, nXcols, clear, classifier, dirs, files,
                   pred_to_run, pred_completed, err, prior, runs>>
    /\ UNCHANGED notTrain

\* the run is interrupted from outside while its tasks are running; only the
\* file system outlives the processes
Kill ==
    /\ dpc = "running"
    /\ dpc' = "killed"
    /\ task' = Idle
    /\ clf' = [i \in 0..(MaxCols - 1) |-> "unfit"]
    /\ err' = [i \in 0..(MaxCols - 1) |-> "none"]
    /\ touched' = [i \in 0..(MaxCols - 1) |-> {}]
    /\ UNCHANGED <<col_names, nXcols, clear, classifier, dirs, files,
                   pred_to_run, pred_completed, prior, runs>>
    /\ UNCHANGED notTrain

\* lines 53-75 again: the driver is run once more on the same directory
Rerun ==
    /\ dpc \in {"finished", "aborted", "killed"}
    /\ runs < MaxRuns
    /\ runs' = runs + 1
    /\ clear' \in BOOLEAN
    /\ classifier' \in ClfTypes
    /\ dpc' = "loaded"
    /\ pred_to_run' = <<>>
    /\ pred_completed' = 0
    /\ task' = Idle
    /\ clf' = [i \in 0..(MaxCols - 1) |-> "unfit"]
    /\ err' = [i \in 0..(MaxCols - 1) |-> "none"]
    /\ touched' = [i \in 0..(MaxCols - 1) |-> {}]
    /\ prior' = files
    /\ UNCHANGED <<col_names, nXcols, dirs, files>>
    /\ UNCHANGED notTrain

Next ==
    \/ Scan
    \/ Dispatch
    \/ \E i \in 0..(MaxCols - 1) : TaskStart(i)
    \/ \E i \in 0..(MaxCols - 1) : TaskIsdir(i)
    \/ \E i \in 0..(MaxCols - 1) : TaskMkdir(i)
    \/ \E i \in 0..(MaxCols - 1) : TaskFit(i)
    \/ \E i \in 0..(MaxCols - 1) : TaskDump(i)
    \/ \E i \in 0..(MaxCols - 1) : TaskSave(i)
    \/ Finish
    \/ Abort
    \/ Kill
    \/ Rerun

Spec == Init /\ [][Next]_vars

\* ------------------------------------------- claims on the training driver
Dispatched == {i \in DOMAIN task : task[i] # "idle"}
TrainedBefore == {i \in Cols : AccFile(i) \in DOMAIN prior}
PendingBefore == Cols \ TrainedBefore
UnderPredictors(p) == IsPrefix(Predictors, p)

C3_ClearDiscardsAll ==
    /\ (clear /\ dpc = "scanned") =>
          /\ \A p \in DOMAIN prior : UnderPredictors(p) => p \notin DOMAIN files
          /\ \A p \in DOMAIN files : ~UnderPredictors(p)
          /\ {d \in dirs : UnderPredictors(d)} = {Predictors}
          /\ pred_to_run = Range(NColNames)
    /\ (clear /\ dpc \in {"running", "finished", "aborted"}) =>
          /\ pred_to_run = Range(NColNames)
          /\ Dispatched = Cols

\* a run with --clear is about to dispatch, and accuracy records and models of
\* an earlier run existed when it began
C3_Witness ==
    /\ clear
    /\ dpc = "scanned"
    /\ \E p \in DOMAIN prior : UnderPredictors(p) /\ Last(p) = "accuracy"
    /\ \E p \in DOMAIN prior : UnderPredictors(p) /\ Last(p) # "accuracy"

RolesDistinct == \A i, j \in Cols : i # j => col_names[i] # col_names[j]

\* C4 as stated: when a run ends because the fit of some column raised, every
\* other dispatched column has its model and its accuracy record on disk.
C4_FitFailureIsolated ==
    (/\ dpc = "aborted"
     /\ \A i \in Cols : err[i] \in {"none", "FitError"}
     /\ RolesDistinct
     /\ NColNames = nXcols) =>
        \A i \in ToSet(pred_to_run) :
            err[i] = "none" =>
                /\ ClfFilename(i) \in DOMAIN files
                /\ AccFile(i) \in DOMAIN files

\* C6 as stated: no task is dispatched, and nothing is written below
\* Predictors, unless col.h has as many rows as X has columns.
C6_MismatchRejected ==
    (NColNames # nXcols) =>
        /\ Dispatched = {}
        /\ \A p \in DOMAIN files : UnderPredictors(p) => p \in DOMAIN prior
        /\ \A i \in Cols : touched[i] = {}

TouchDisjoint ==
    \A i, j \in Cols :
        i # j => /\ touched[i] \cap touched[j] = {}
                 /\ err[i] # "FileExistsError"

C10_AccuracyImpliesModel ==
    \A p \in DOMAIN files :
        Last(p) = "accuracy" =>
            LET m == Parent(p) \o <<Last(Parent(p))>>
            IN  /\ m \in DOMAIN files
                /\ files[m] = "all"

\* a second run was interrupted between the dump of one column's model and
\* the write of its accuracy record, while another column has its record
C10_Witness ==
    /\ runs = 2
    /\ dpc = "killed"
    /\ \E i, j \in Cols :
          /\ ClfFilename(i) \in DOMAIN files
          /\ AccFile(i) \notin DOMAIN files
          /\ AccFile(j) \in DOMAIN files

\* ------------------------------------------------------------ eval_gtos.py
MaxRows == 2
PredValues == {0, 1}

ECols == 0..(eNcols - 1)

\* line 28: joblib.load(clfFile) returns only if the file exists
LoadOK_always(c) == TRUE
LoadOK(c) == c \in modelFiles

\* lines 29-33: the predictions of column c for every row, then c itself
RunPredictor(c) == modelPred[c] \o <<c>>

\* line 90: joblib.Parallel returns the results in the order of its input
ParallelOutput_completion == [k \in 1..Len(completion) |-> results[completion[k]]]
ParallelOutput == [k \in 1..eNcols |-> results[k - 1]]

\* np.transpose of a matrix held as the sequence of its rows
Transpose(A) == [r \in 1..Len(A[1]) |-> [k \in 1..Len(A) |-> A[k][r]]]

\* lines 92-96: the index row is taken off and the columns are picked by it
Reassemble(P) ==
    LET T       == Transpose(P)
        col_ind == T[Len(T)]
        D       == SubSeq(T, 1, Len(T) - 1)
    IN  [r \in 1..Len(D) |-> [j \in 1..Len(col_ind) |-> D[r][col_ind[j] + 1]]]

\* lines 107-129: the files the run writes
OutputFiles == {<<"summaries", r>> : r \in 1..eNrows} \cup {<<"scores">>, <<"predictions">>}

\* lines 74-84: X, col.h and row.h are loaded; the models are those on disk
EvalInit ==
    /\ eNcols \in 2..MaxCols
    /\ eNrows \in 1..MaxRows
    /\ modelFiles \in SUBSET ECols
    /\ modelPred \in [ECols -> [1..eNrows -> PredValues]]
    /\ epc = "loaded"
    /\ etask = [c \in ECols |-> "idle"]
    /\ results = [c \in ECols |-> <<>>]
    /\ completion = <<>>
    /\ predictions = <<>>
    /\ written = {}

TrainOff ==
    /\ col_names = <<>> /\ nXcols = 0 /\ clear = FALSE /\ classifier = "none"
    /\ dirs = {} /\ files = <<>> /\ dpc = "off" /\ pred_to_run = <<>>
    /\ pred_completed = 0 /\ TrainIdleTasks /\ prior = <<>> /\ runs = 0

InitEval == EvalInit /\ TrainOff /\ LoadIdle /\ FoldIdle

notEval == <<trainVars, loadVars, foldVars>>

\* line 90: the tasks are handed to joblib.Parallel
EDispatch ==
    /\ epc = "loaded"
    /\ epc' = "running"
    /\ etask' = [c \in ECols |-> "queued"]
    /\ UNCHANGED <<eNcols, eNrows, modelFiles, results, completion, modelPred,
                   predictions, written>>
    /\ UNCHANGED notEval

\* lines 10-33: run_predictor(c), in a worker; the tasks complete in any order
ERun(c) ==
    /\ epc = "running"
    /\ etask[c] = "queued"
    /\ IF LoadOK(c)
       THEN /\ results' = [results EXCEPT ![c] = RunPredictor(c)]
            /\ completion' = Append(completion, c)
            /\ etask' = [etask EXCEPT ![c] = "returned"]
       ELSE /\ etask' = [etask EXCEPT ![c] = "failed"]
            /\ UNCHANGED <<results, completion>>
    /\ UNCHANGED <<eNcols, eNrows, modelFiles, epc, modelPred, predictions, written>>
    /\ UNCHANGED notEval

\* line 90: every task returned; joblib.Parallel returns the list of results
ECollect ==
    /\ epc = "running"
    /\ \A c \in ECols : etask[c] = "returned"
    /\ predictions' = ParallelOutput
    /\ epc' = "collected"
    /\ UNCHANGED <<eNcols, eNrows, modelFiles, etask, results, completion,
                   modelPred, written>>
    /\ UNCHANGED notEval

\* line 90: joblib.Parallel re-raises the exception of a task; the script ends
EAbort ==
    /\ epc = "running"
    /\ \E c \in ECols : etask[c] = "failed"
    /\ epc' = "aborted"
    /\ etask' = [c \in ECols |-> IF etask[c] = "queued" THEN "cancelled" ELSE etask[c]]
    /\ UNCHANGED <<eNcols, eNrows, modelFiles, results, completion, modelPred,
                   predictions, written>>
    /\ UNCHANGED notEval

\* lines 92-96
EReassemble ==
    /\ epc = "collected"
    /\ predictions' = Reassemble(predictions)
    /\ epc' = "reassembled"
    /\ UNCHANGED <<eNcols, eNrows, modelFiles, etask, results, completion,
                   modelPred, written>>
    /\ UNCHANGED notEval

\* lines 98-130: the scores are computed and every output file is written
EWrite ==
    /\ epc = "reassembled"
    /\ written' = OutputFiles
    /\ epc' = "written"
    /\ UNCHANGED <<eNcols, eNrows, modelFiles, etask, results, completion,
                   modelPred, predictions>>
    /\ UNCHANGED notEval

NextEval ==
    \/ EDispatch
    \/ \E c \in 0..(MaxCols - 1) : c \in ECols /\ ERun(c)
    \/ ECollect
    \/ EAbort
    \/ EReassemble
    \/ EWrite

SpecEval == InitEval /\ [][NextEval]_vars

\* C1: in whatever order the tasks complete, column j of the reconstructed
\* matrix holds, row by row, what the model of column j predicted.
C1_ColumnsInOriginalOrder ==
    (epc \in {"reassembled", "written"}) =>
        /\ Len(predictions) = eNrows
        /\ \A r \in 1..eNrows :
              /\ Len(predictions[r]) = eNcols
              /\ \A j \in ECols : predictions[r][j + 1] = modelPred[j][r]

\* three tasks completed in the order 1, 2, 0, their predictions differ, and
\* the matrix has been reassembled
C1_Witness ==
    /\ epc = "reassembled"
    /\ completion = <<1, 2, 0>>
    /\ \E r \in 1..eNrows : modelPred[0][r] # modelPred[1][r]
    /\ \E r \in 1..eNrows : modelPred[1][r] # modelPred[2][r]

\* C5: when the model file of some column is missing, the run never gets past
\* the parallel map and writes none of its output files.
C5_MissingModelIsFatal ==
    (epc # "off" /\ modelFiles # ECols) =>
        /\ written = {}
        /\ epc \in {"loaded", "running", "aborted"}

\* one model is missing, the others were loaded and returned their
\* predictions, and the run ended in the error
C5_Witness ==
    /\ epc = "aborted"
    /\ Cardinality(ECols \ modelFiles) = 1
    /\ \A c \in modelFiles : etask[c] = "returned"
    /\ written = {}

\* ----------------------------------------------------------- matrix loading
MaxDim == 6

\* np.squeeze, with which np.genfromtxt ends: the axes of length 1 are dropped
Squeeze(sh) == SelectSeq(sh, LAMBDA d : d # 1)

\* np.genfromtxt(path, delimiter='\t') of a file of r rows and c columns
GenfromtxtShape(r, c) == Squeeze(<<r, c>>)

RECURSIVE Size(_)
\* the number of elements of an array of shape sh
Size(sh) == IF sh = <<>> THEN 1 ELSE sh[1] * Size(Tail(sh))

\* X.reshape(1, -1)
ReshapeOneRow(sh) == <<1, Size(sh)>>

LoadInit ==
    /\ script \in {"eval_gtos", "apply_classifier"}
    /\ fileRows \in 1..MaxDim
    /\ fileCols \in 1..MaxDim
    /\ lpc = "file"
    /\ shape = <<>>

EvalOff ==
    /\ eNcols = 0 /\ eNrows = 0 /\ modelFiles = {} /\ epc = "off"
    /\ etask = <<>> /\ results = <<>> /\ completion = <<>>
    /\ modelPred = <<>> /\ predictions = <<>> /\ written = {}

InitLoad == LoadInit /\ TrainOff /\ EvalOff /\ FoldIdle

notLoad == <<trainVars, evalVars, foldVars>>

\* eval_gtos.py line 74, apply_classifier.py line 26
Genfromtxt ==
    /\ lpc = "file"
    /\ shape' = GenfromtxtShape(fileRows, fileCols)
    /\ lpc' = "parsed"
    /\ UNCHANGED <<script, fileRows, fileCols>>
    /\ UNCHANGED notLoad

\* eval_gtos.py lines 81-82, apply_classifier.py lines 31-32
Normalize ==
    /\ lpc = "parsed"
    /\ shape' = IF Len(shape) # 2 THEN ReshapeOneRow(shape) ELSE shape
    /\ lpc' = "loaded"
    /\ UNCHANGED <<script, fileRows, fileCols>>
    /\ UNCHANGED notLoad

NextLoad == Genfromtxt \/ Normalize

SpecLoad == InitLoad /\ [][NextLoad]_vars

\* C7 as stated: once loaded, X has the shape (rows of the file, columns of
\* the file), in both scripts.
C7_ShapeIsRowsByCols ==
    (lpc = "loaded") => shape = <<fileRows, fileCols>>

\* --------------------------------------------------------------- fold count
MaxPercent == 100

\* int(1./fraction): the quotient is cut to an integer
FoldCount(num, den) == den \div num

\* KFold(n_splits=k) raises ValueError unless k is at least 2
KFoldAccepts(k) == k >= 2

FoldInit ==
    /\ fraction \in {<<pct, 100>> : pct \in 0..MaxPercent}
    /\ fpc = "parsed"
    /\ n_fold = 0

InitFold == FoldInit /\ TrainOff /\ EvalOff /\ LoadIdle

notFold == <<trainVars, evalVars, loadVars>>

\* build_LDA_predictors.py line 103
ComputeFold ==
    /\ fpc = "parsed"
    /\ IF fraction[1] = 0
       THEN /\ fpc' = "ZeroDivisionError"
            /\ UNCHANGED n_fold
       ELSE /\ n_fold' = FoldCount(fraction[1], fraction[2])
            /\ fpc' = "folded"
    /\ UNCHANGED fraction
    /\ UNCHANGED notFold

\* build_LDA_predictors.py line 25
MakeKFold ==
    /\ fpc = "folded"
    /\ fpc' = IF KFoldAccepts(n_fold) THEN "accepted" ELSE "ValueError"
    /\ UNCHANGED <<fraction, n_fold>>
    /\ UNCHANGED notFold

NextFold == ComputeFold \/ MakeKFold

SpecFold == InitFold /\ [][NextFold]_vars

\* den/num rounded to the nearest integer, a tie going to the even one
RoundNearest(num, den) ==
    LET q == den \div num
        twice == 2 * (den % num)
    IN  IF twice > num \/ (twice = num /\ q % 2 = 1) THEN q + 1 ELSE q

\* C8 as stated: the fold count of an accepted fraction is 1/fraction rounded
\* to the nearest integer.
C8_FoldCountIsRounded ==
    (fpc = "accepted") => n_fold = RoundNearest(fraction[1], fraction[2])

====
